---- MODULE Spec2Model ----
(***************************************************************************)
(* The undoable scale command of UM/Operations/ScaleOperation.py.          *)
(*                                                                         *)
(* Numbers are exact rationals <<numerator, denominator>> in lowest terms; *)
(* a vector is a triple of them.  A scene node is a root node without      *)
(* rotation, so its local transformation is a position and a per-axis      *)
(* scale and the Parent and World spaces coincide.  SceneNode and Vector   *)
(* are collaborators of the operation: their behaviour follows the         *)
(* specification's description of TransformableNode and Vector3.  Vectors  *)
(* are values: "self._scale *= ..." gives the operation a new scale and    *)
(* changes no other holder of the old one.  A division by zero stops       *)
(* redo() where it happens and leaves the node as it was.                  *)
(***************************************************************************)
EXTENDS Integers, Sequences, FiniteSets, TLC

VARIABLES nodes, ops, ret, raised, log, ghost, calls

vars == <<nodes, ops, ret, raised, log, ghost, calls>>

---------------------------------------------------------------------------
(* Bounds of the model *)

MaxOps == 3        \* operations that may exist in the merge scenario
MaxRedo == 2       \* redo() calls in the single-operation scenario
MaxCalls == 1      \* redo() calls in the merge scenario
LogDepth == 3      \* calls remembered in the single-operation scenario

---------------------------------------------------------------------------
(* Exact rational arithmetic *)

RECURSIVE GCD(_, _)
GCD(a, b) == IF b = 0 THEN a ELSE GCD(b, a % b)

Abs(i) == IF i < 0 THEN -i ELSE i

\* n/d in lowest terms with a positive denominator (d # 0)
Rat(n, d) ==
    LET s == IF d < 0 THEN -1 ELSE 1
        g == GCD(Abs(n), Abs(d))
    IN  <<(s * n) \div g, (s * d) \div g>>

Zero == <<0, 1>>
One == <<1, 1>>

RAdd(a, b) == Rat(a[1] * b[2] + b[1] * a[2], a[2] * b[2])
RNeg(a) == <<-a[1], a[2]>>
RSub(a, b) == RAdd(a, RNeg(b))
RMul(a, b) == Rat(a[1] * b[1], a[2] * b[2])
RDiv(a, b) == Rat(a[1] * b[2], a[2] * b[1])
RAbs(a) == <<Abs(a[1]), a[2]>>
RLt(a, b) == a[1] * b[2] < b[1] * a[2]
RLe(a, b) == a[1] * b[2] <= b[1] * a[2]

\* round(x, 2): to the nearest hundredth, ties to the even hundredth
Round2(a) ==
    LET n == a[1] * 100
        q == n \div a[2]
        r == 2 * (n - q * a[2])
        h == IF r < a[2] THEN q
             ELSE IF r > a[2] THEN q + 1
             ELSE IF q % 2 = 0 THEN q ELSE q + 1
    IN  Rat(h, 100)

---------------------------------------------------------------------------
(* Vector *)

Vector(x, y, z) == <<x, y, z>>
Axes == {1, 2, 3}
VAdd(a, b) == <<RAdd(a[1], b[1]), RAdd(a[2], b[2]), RAdd(a[3], b[3])>>
VMul(a, b) == <<RMul(a[1], b[1]), RMul(a[2], b[2]), RMul(a[3], b[3])>>
VNeg(a) == <<RNeg(a[1]), RNeg(a[2]), RNeg(a[3])>>
VScalar(k, a) == <<RMul(k, a[1]), RMul(k, a[2]), RMul(k, a[3])>>
Origin == Vector(Zero, Zero, Zero)

---------------------------------------------------------------------------
(* SceneNode: a transformation is [position, scale] *)

getLocalTransformation(n) == n
setTransformation(n, t) == t
getScale(n) == n.scale
setScale(n, s) == [n EXCEPT !.scale = s]
setPosition(n, p) == [n EXCEPT !.position = p]
\* scale in the Parent or World space: the scale matrix is applied after the
\* node's transformation, which scales the node's position with it
scaleBy(n, f) == [position |-> VMul(f, n.position), scale |-> VMul(f, n.scale)]

---------------------------------------------------------------------------
(* ScaleOperation *)

MinScale == Rat(1, 100)     \* self._min_scale = 0.01

\* __init__: the fields of a new operation on node id with the node value n
NewOperation(id, n, scale, set, add, rel, pivot, snap) ==
    [node |-> id,
     old_transformation |-> getLocalTransformation(n),
     set_scale |-> set,
     add_scale |-> add,
     relative_scale |-> rel,
     scale_around_point |-> pivot,
     snap |-> snap,
     scale |-> scale]

\* (mutant) undo() that puts back the scale alone
UndoScaleOnly(op, n) == setScale(n, op.old_transformation.scale)

\* undo(): the node after it
UndoNode(op, n) == setTransformation(n, op.old_transformation)

\* (mutant) the test for a uniform scale without its z component
UniformXY(s) == s[2] = s[1]

\* the three components of the scale are equal
Uniform(s) == s[3] = s[2] /\ s[2] = s[1]

ScaleSum(c) == RAdd(RAdd(c[1], c[2]), c[3])

\* the direction fix divides by the sum of the current scale
RatioRaises(s, c) == Uniform(s) /\ ScaleSum(c) = Zero

\* (mutant) no direction fix: the uniform scale is used as given
NoDirectionFix(s, c) == s

\* self._scale after the direction fix of a uniform scale
DirectionFix(s, c) ==
    IF Uniform(s)
    THEN LET ratio == RMul(RDiv(One, ScaleSum(c)), <<3, 1>>)
             ratio_vector == VScalar(ratio, c)
         IN  VMul(s, ratio_vector)
    ELSE s

\* one axis of scale_factor before it is divided by the current scale
Combine(c, s) ==
    IF RLt(Zero, c) THEN RAbs(RAdd(c, s)) ELSE RNeg(RAbs(RSub(c, s)))

\* the division of one axis of scale_factor by the current scale raises
NormalizeRaises(f, c) == f # Zero /\ c = Zero

\* one axis of scale_factor divided by the current scale
Normalize(f, c) == IF f # Zero THEN RDiv(f, c) ELSE f

\* one axis of new_scale after snapping
Snap(x, f, snap) == IF snap /\ f # One THEN Round2(x) ELSE x

\* one axis of new_scale after "Enforce min size"
EnforceMin(x) ==
    IF RLt(x, MinScale) /\ RLe(Zero, x) THEN MinScale ELSE x

\* (mutant) no minimum size for a mirrored axis
NoMinMirrored(x) == x

\* one axis of new_scale after "Enforce min size (when mirrored)"
EnforceMinMirrored(x) ==
    IF RLt(RNeg(MinScale), x) /\ RLe(x, Zero) THEN RNeg(MinScale) ELSE x

\* the node moved to -pivot, scaled in the Parent space and moved to pivot
ScaleAroundPoint(n, f, pivot) ==
    setPosition(scaleBy(setPosition(n, VNeg(pivot)), f), pivot)

\* scale_factor: each axis combined with and divided by the current scale
ScaleFactor(c, s) ==
    <<Normalize(Combine(c[1], s[1]), c[1]), Normalize(Combine(c[2], s[2]), c[2]),
      Normalize(Combine(c[3], s[3]), c[3])>>

\* a division of scale_factor by the current scale raises
FactorRaises(c, s) ==
    \E i \in Axes : NormalizeRaises(Combine(c[i], s[i]), c[i])

\* new_scale after snapping, from the node's scale after node.scale()
Snapped(new, f, snap) ==
    <<Snap(new[1], f[1], snap), Snap(new[2], f[2], snap), Snap(new[3], f[3], snap)>>

\* new_scale with both minimum sizes enforced
Floored(sn) ==
    <<EnforceMinMirrored(EnforceMin(sn[1])), EnforceMinMirrored(EnforceMin(sn[2])),
      EnforceMinMirrored(EnforceMin(sn[3]))>>

\* the end of the relative_scale branch: the minimum enforced and set
RelativeSet(s, n1, sn) ==
    [scale |-> s, node |-> setScale(n1, Floored(sn)), raised |-> "no", snapped |-> sn]

\* the relative_scale branch from the scale factor on
RelativeApply(s, n1, f, snap) ==
    RelativeSet(s, n1, Snapped(getScale(n1), f, snap))

\* the relative_scale branch after the direction fix left the scale s
RelativeFrom(op, n, s) ==
    IF FactorRaises(getScale(n), s)
    THEN [scale |-> s, node |-> n, raised |-> "normalize", snapped |-> getScale(n)]
    ELSE RelativeApply(s, ScaleAroundPoint(n, ScaleFactor(getScale(n), s),
                                           op.scale_around_point),
                       ScaleFactor(getScale(n), s), op.snap)

\* redo() in the relative_scale branch: the operation's scale and the node
\* after it, which division raised on a zero divisor ("no": none, and redo
\* completed), and new_scale as it was before the minimum was enforced
RedoRelative(op, n) ==
    IF RatioRaises(op.scale, getScale(n))
    THEN [scale |-> op.scale, node |-> n, raised |-> "ratio", snapped |-> getScale(n)]
    ELSE RelativeFrom(op, n, DirectionFix(op.scale, getScale(n)))

\* redo(): the same four results for every branch
RedoResult(op, n) ==
    IF op.set_scale
    THEN [scale |-> op.scale, node |-> setScale(n, op.scale), raised |-> "no",
          snapped |-> op.scale]
    ELSE IF op.add_scale
    THEN [scale |-> op.scale, node |-> setScale(n, VAdd(getScale(n), op.scale)),
          raised |-> "no", snapped |-> VAdd(getScale(n), op.scale)]
    ELSE IF op.relative_scale
    THEN RedoRelative(op, n)
    ELSE [scale |-> op.scale, node |-> scaleBy(n, op.scale), raised |-> "no",
          snapped |-> VMul(op.scale, getScale(n))]

\* mergeWith(other) returns False; other = 0 is an operation of another class
MergeRejects(self, other) ==
    \/ other = 0
    \/ ops[other].node # self.node
    \/ ops[other].set_scale /\ ~self.set_scale
    \/ ops[other].add_scale /\ ~self.add_scale

\* (mutant) the merged operation keeps the transformation its own __init__ read
MergedKeepsOwn(self, other) ==
    NewOperation(self.node, nodes[self.node], self.scale, FALSE, FALSE, FALSE,
                 Origin, FALSE)

\* the operation mergeWith(other) returns
MergedOperation(self, other) ==
    [NewOperation(self.node, nodes[self.node], self.scale, FALSE, FALSE, FALSE,
                  Origin, FALSE)
     EXCEPT !.old_transformation = ops[other].old_transformation]

---------------------------------------------------------------------------
(* Inputs *)

V(a, b, c) == Vector(Rat(a, 1000), Rat(b, 1000), Rat(c, 1000))

Flags == {<<FALSE, FALSE, FALSE>>, <<TRUE, FALSE, FALSE>>,
          <<FALSE, TRUE, FALSE>>, <<FALSE, FALSE, TRUE>>}

\* the merge scenario: two nodes, a few operations
StartNode == [position |-> V(1000, 0, 0), scale |-> V(3000, 3000, 3000)]
OtherNode == [position |-> Origin, scale |-> V(1000, 1000, 1000)]
\* <<node, scale, flags, scale_around_point, snap>> of the operations constructed
MergeInputs ==
    {<<1, V(2000, 2000, 2000), <<TRUE, FALSE, FALSE>>, Origin, FALSE>>,
     <<1, V(500, 0, 0), <<FALSE, TRUE, FALSE>>, Origin, FALSE>>,
     <<1, V(2000, 2000, 2000), <<FALSE, FALSE, TRUE>>, V(1000, 0, 0), TRUE>>,
     <<1, V(2000, 2000, 2000), <<FALSE, FALSE, FALSE>>, Origin, FALSE>>,
     <<2, V(2000, 2000, 2000), <<FALSE, FALSE, FALSE>>, Origin, FALSE>>}

\* the single-operation scenario: one node, many scales
StartScales == {V(1000, 1000, 1000), V(2000, 1000, 1000), V(-1000, 1000, 1000),
                V(0, 1000, 1000), V(-2000, 1000, 1000), V(-2000, -1000, -1000)}
StartPositions == {Origin, V(1000, 0, 0)}
Scales == {V(1000, 1000, 1000), V(0, 0, 0), V(1000, 0, 0), V(-1000, 0, 0),
           V(0, 0, 1000),
           V(-998, 0, 0), V(234, 0, 0), V(2000, 2000, 2000),
           Vector(Rat(-4, 3), Rat(-4, 3), Rat(-4, 3))}
Pivots == {Origin, V(1000, 0, 0)}

---------------------------------------------------------------------------
(* The state machine.  nodes and ops are the program's objects; ret is what  *)
(* the last mergeWith returned; raised is whether the last redo stopped on   *)
(* a division by zero.  log (the last three calls) and ghost (per operation: *)
(* the node's transformation when __init__ ran, the operands of the merge    *)
(* that made it, the redo() calls so far, the operations applied before it)  *)
(* record history for the properties; calls counts the redo() calls.         *)

NoOp == [node |-> 0]

Event(kind, i, j, pre, post, r, s, sn) ==
    [kind |-> kind, op |-> i, other |-> j, pre |-> pre, post |-> post,
     raised |-> r, scale |-> s, snapped |-> sn]

Push(e, depth) ==
    IF Len(log) < depth THEN Append(log, e) ELSE Append(Tail(log), e)

Last == log[Len(log)]

InitWith(n1) ==
    /\ nodes = <<n1, OtherNode>>
    /\ ops = <<>>
    /\ ret = "none"
    /\ raised = "no"
    /\ log = <<>>
    /\ ghost = <<>>
    /\ calls = 0

ConstructWith(id, scale, fl, pivot, snap, limit, depth) ==
    /\ Len(ops) < limit
    /\ ops' = Append(ops, NewOperation(id, nodes[id], scale, fl[1], fl[2], fl[3],
                                       pivot, snap))
    /\ ghost' = Append(ghost, [captured |-> nodes[id], self |-> NoOp, selfId |-> 0,
                               other |-> -1, redos |-> 0,
                               applied |-> {k \in 1..Len(ops) : ghost[k].redos > 0}])
    /\ log' = Push(Event("init", Len(ops) + 1, -1, nodes[id], nodes[id], "no",
                         scale, scale), depth)
    /\ UNCHANGED <<nodes, ret, raised, calls>>

Construct ==
    \E in \in MergeInputs :
        ConstructWith(in[1], in[2], in[3], in[4], in[5], MaxOps - 1, 1)

ConstructOne ==
    \E scale \in Scales, fl \in Flags, pivot \in Pivots, snap \in BOOLEAN :
        ConstructWith(1, scale, fl, pivot, snap, 1, LogDepth)

RedoWith(i, depth, limit) ==
    /\ calls < limit
    /\ calls' = calls + 1
    /\ LET op == ops[i]
           r == RedoResult(op, nodes[op.node])
       IN  /\ nodes' = [nodes EXCEPT ![op.node] = r.node]
           /\ ops' = [ops EXCEPT ![i].scale = r.scale]
           /\ raised' = r.raised
           /\ log' = Push(Event("redo", i, -1, nodes[op.node], r.node, r.raised,
                                op.scale, r.snapped), depth)
    /\ ghost' = [ghost EXCEPT ![i].redos = @ + 1]
    /\ UNCHANGED ret

UndoWith(i, depth) ==
    /\ LET op == ops[i]
           n == UndoNode(op, nodes[op.node])
       IN  /\ nodes' = [nodes EXCEPT ![op.node] = n]
           /\ log' = Push(Event("undo", i, -1, nodes[op.node], n, "no", op.scale,
                                op.scale), depth)
    /\ UNCHANGED <<ops, ret, raised, ghost, calls>>

\* self.mergeWith(other); other is older than self, or (0) of another class
MergeWith(i, j) ==
    /\ Len(ops) < MaxOps
    /\ LET self == ops[i]
           n == nodes[self.node]
       IN  IF MergeRejects(self, j)
           THEN /\ ret' = "False"
                /\ log' = Push(Event("merge", i, j, n, n, "no", self.scale, self.scale), 1)
                /\ UNCHANGED <<ops, ghost>>
           ELSE /\ ret' = "op"
                /\ ops' = Append(ops, MergedOperation(self, j))
                /\ ghost' = Append(ghost,
                       [captured |-> n, self |-> self, selfId |-> i, other |-> j,
                        redos |-> 0,
                        applied |-> {k \in 1..Len(ops) : ghost[k].redos > 0}])
                /\ log' = Push(Event("merge", i, j, n, n, "no", self.scale, self.scale), 1)
    /\ UNCHANGED <<nodes, raised, calls>>

Redo(i) == RedoWith(i, 1, MaxCalls)

Undo(i) == UndoWith(i, 1)

RedoOne == RedoWith(1, LogDepth, MaxRedo)

UndoOne == UndoWith(1, LogDepth)

Init == InitWith(StartNode)

Next ==
    \/ Construct
    \/ \E i \in 1..Len(ops) : Redo(i)
    \/ \E i \in 1..Len(ops) : Undo(i)
    \/ \E i \in 1..Len(ops) : \E j \in 0..(i - 1) : MergeWith(i, j)

Spec == Init /\ [][Next]_vars

InitOne ==
    \E s \in StartScales, p \in StartPositions :
        InitWith([position |-> p, scale |-> s])

NextOne ==
    \/ ConstructOne
    \/ Len(ops) = 1 /\ RedoOne
    \/ Len(ops) = 1 /\ UndoOne

SpecOne == InitOne /\ [][NextOne]_vars

---------------------------------------------------------------------------
(* Properties *)

\* the k-th call before the last one
Call(k) == log[Len(log) - k]

LastIs(kind) == log # <<>> /\ Last.kind = kind

\* the node the last call's operation works on, as it is now
LastNode == nodes[ops[Last.op].node]

\* the branch redo() takes
Mode(op) ==
    IF op.set_scale THEN "SetAbsolute"
    ELSE IF op.add_scale THEN "AddToCurrent"
    ELSE IF op.relative_scale THEN "RelativeToCurrent"
    ELSE "DefaultMultiply"

\* the last call was a redo() in the relative_scale branch that completed
RelativeRedo ==
    /\ LastIs("redo")
    /\ Mode(ops[Last.op]) = "RelativeToCurrent"
    /\ Last.raised = "no"

AllPositive(c) == \A i \in Axes : RLt(Zero, c[i])

\* C1: after an operation made by the constructor was redone one or more
\* times and then undone, the node's position and scale are those it had
\* when the operation was constructed.
UndoExact ==
    (LastIs("undo") /\ ghost[Last.op].other = -1 /\ ghost[Last.op].redos >= 1)
        => LastNode = ghost[Last.op].captured

\* C1 witness: an undo after two redos that moved and rescaled the node
UndoExactWitness ==
    /\ LastIs("undo")
    /\ ghost[Last.op].other = -1
    /\ ghost[Last.op].redos = 2
    /\ Last.pre.position # Last.post.position
    /\ Last.pre.scale # Last.post.scale
    /\ LastNode = ghost[Last.op].captured

\* C2: undoing the operation B.mergeWith(A) returned, A made by the
\* constructor, leaves the node in the transformation it had when A was
\* constructed.
MergeAdoptsOlder ==
    (/\ LastIs("undo")
     /\ ghost[Last.op].other >= 1
     /\ ghost[ghost[Last.op].other].other = -1)
        => LastNode = ghost[ghost[Last.op].other].captured

\* C2 witness: A was applied before B was constructed, so B was constructed
\* in another state than A, and the merged operation's undo went back to A's
MergeAdoptsOlderWitness ==
    /\ LastIs("undo")
    /\ ghost[Last.op].other >= 1
    /\ ghost[ghost[Last.op].other].other = -1
    /\ ghost[Last.op].other \in ghost[ghost[Last.op].selfId].applied
    /\ ghost[ghost[Last.op].selfId].captured # ghost[ghost[Last.op].other].captured
    /\ Last.pre # Last.post
    /\ LastNode = ghost[ghost[Last.op].other].captured

\* C3: redo() of the operation B.mergeWith(A) returned, run from A's
\* pre-state, leaves the node as B.redo() run from that state does.
MergeKeepsNewer ==
    (/\ LastIs("redo")
     /\ ghost[Last.op].other >= 1
     /\ Last.pre = ops[Last.op].old_transformation)
        => /\ Last.post = RedoResult(ghost[Last.op].self, Last.pre).node
           /\ Last.raised = RedoResult(ghost[Last.op].self, Last.pre).raised

\* C4: mergeWith(other) on a scale operation returns False exactly when the
\* two work on different nodes, or exactly one of them is in the SetAbsolute
\* mode, or exactly one of them is in the AddToCurrent mode.
MergeRejection ==
    (LastIs("merge") /\ Last.other >= 1)
        => ((ret = "False") <=>
              \/ ops[Last.op].node # ops[Last.other].node
              \/ (Mode(ops[Last.op]) = "SetAbsolute")
                    # (Mode(ops[Last.other]) = "SetAbsolute")
              \/ (Mode(ops[Last.op]) = "AddToCurrent")
                    # (Mode(ops[Last.other]) = "AddToCurrent"))

\* C5: after a completed redo() in the relative_scale branch every axis of
\* the node's scale has a magnitude of at least 0.01.
MinScaleFloor ==
    RelativeRedo => \A i \in Axes : RLe(MinScale, RAbs(LastNode.scale[i]))

\* C5 witness: a mirrored axis that came out between -0.01 and 0 and one
\* that came out between 0 and 0.01 were both put at the minimum
MinScaleFloorWitness ==
    /\ RelativeRedo
    /\ \E i \in Axes : /\ RLt(Last.snapped[i], Zero)
                        /\ RLt(RNeg(MinScale), Last.snapped[i])
                        /\ LastNode.scale[i] = RNeg(MinScale)

\* C6: a completed redo() in the relative_scale branch leaves every axis
\* negative whose scale was negative before it.
MirrorSignPreserved ==
    RelativeRedo =>
        \A i \in Axes : RLt(Last.pre.scale[i], Zero) => RLt(LastNode.scale[i], Zero)

\* C7: redo() in the relative_scale branch on a node whose scale is 0 on
\* an axis does not divide scale_factor by that 0.
ZeroAxisNoError ==
    (/\ LastIs("redo")
     /\ Mode(ops[Last.op]) = "RelativeToCurrent"
     /\ \E i \in Axes : Last.pre.scale[i] = Zero)
        => Last.raised # "normalize"

\* the last call was a completed relative redo() without snap of a uniform
\* non-zero scale on a node whose scale was not uniform
UniformOnNonUniform ==
    /\ RelativeRedo
    /\ ~ops[Last.op].snap
    /\ Uniform(Last.scale)
    /\ Last.scale[1] # Zero
    /\ ~Uniform(Last.pre.scale)

\* no axis was put at the minimum size
NoFloor == Last.snapped = LastNode.scale

\* |1 + 3d/(cx+cy+cz)|
UniformFactor(d, c) == RAbs(RAdd(One, RDiv(RMul(<<3, 1>>, d), ScaleSum(c))))

\* C8 as stated: the scale after such a redo() is not uniform, and with
\* positive axes and no axis at the minimum each axis was multiplied by
\* |1 + 3d/(cx+cy+cz)|.
UniformKeepsAnisotropy ==
    UniformOnNonUniform =>
        /\ ~Uniform(LastNode.scale)
        /\ (AllPositive(Last.pre.scale) /\ NoFloor) =>
               LastNode.scale = VScalar(UniformFactor(Last.scale[1], Last.pre.scale),
                                        Last.pre.scale)

\* C8 amended: when no axis is put at the minimum size, the scale after such
\* a redo() is not uniform, and with positive axes each axis was multiplied
\* by |1 + 3d/(cx+cy+cz)|.
UniformKeepsAnisotropyUnlessFloored ==
    (UniformOnNonUniform /\ NoFloor) =>
        /\ ~Uniform(LastNode.scale)
        /\ AllPositive(Last.pre.scale) =>
               LastNode.scale = VScalar(UniformFactor(Last.scale[1], Last.pre.scale),
                                        Last.pre.scale)

\* C8 witness: a positive non-uniform scale was changed by a uniform delta
UniformKeepsAnisotropyWitness ==
    /\ UniformOnNonUniform
    /\ NoFloor
    /\ AllPositive(Last.pre.scale)
    /\ LastNode.scale # Last.pre.scale
    /\ RMul(LastNode.scale[1], Last.pre.scale[2])
         = RMul(LastNode.scale[2], Last.pre.scale[1])

\* C9: after a completed redo() in the relative_scale branch the point of
\* the node that lay at the pivot lies at the pivot: on every axis,
\* position' + (scale'/scale) * (pivot - position) = pivot.
PivotFixed ==
    RelativeRedo =>
        \A i \in Axes :
            Last.pre.scale[i] # Zero =>
                RAdd(RMul(LastNode.position[i], Last.pre.scale[i]),
                     RMul(LastNode.scale[i],
                          RSub(ops[Last.op].scale_around_point[i],
                               Last.pre.position[i])))
                  = RMul(ops[Last.op].scale_around_point[i], Last.pre.scale[i])

\* the last three calls were redo(), undo(), redo() of one operation, the
\* first from the state the operation was constructed in
RedoUndoRedo ==
    /\ Len(log) >= 3
    /\ Call(2).kind = "redo" /\ Call(1).kind = "undo" /\ Call(0).kind = "redo"
    /\ Call(2).op = Call(0).op /\ Call(1).op = Call(0).op
    /\ Call(2).pre = ops[Call(0).op].old_transformation

\* C10: redo(), undo(), redo() leaves the node as the first redo() left it.
RedoReproducible ==
    RedoUndoRedo =>
        /\ Call(0).post = Call(2).post
        /\ Call(0).raised = Call(2).raised
        /\ LastNode = Call(2).post

\* C10 witness: the first redo() overwrote the operation's uniform scale
RedoReproducibleWitness ==
    /\ RedoUndoRedo
    /\ RelativeRedo
    /\ Uniform(Call(2).scale)
    /\ Call(2).scale # Call(0).scale
    /\ Call(0).post # Call(0).pre

====
